---- MODULE Spec2Model ----
(***************************************************************************)
(* Model of DatasetandDataLoader.py: the label classifier, the random crop *)
(* and flips, the eager loader and the SatImageDataset container.          *)
(*                                                                         *)
(* Tensors are modelled by their shape and provenance: a label tensor is a *)
(* sequence of rows (each a sequence of integers); an image is a record    *)
(* holding the index of the file it was read from, its shape               *)
(* <<channels, height, width>> and the number of normalization passes it   *)
(* went through; a cropped/flipped image is a view descriptor on a stored  *)
(* image.  File names are sequences of one-character strings.              *)
(***************************************************************************)
EXTENDS Integers, Sequences, FiniteSets, TLC

VARIABLES
    phase,      \* "idle" | "constructing" | "ready" | "failed"
    cfg,        \* constructor arguments of SatImageDataset
    listing,    \* os.listdir(labels_folder)
    pos,        \* number of completed iterations of the loading loop
    x, y, geo,  \* image_list / label_list / geo_list, then self.x/.y/.geo
    n_images, flip, flip_prob,   \* self.n_images, self.flip, self.flip_prob
    error,      \* the exception that aborted construction ("" if none)
    lastGet,    \* outcome of the latest __getitem__ call
    lastLen,    \* outcome of the latest __len__ call (-1: none yet)
    c_label, c_classes, c_out,   \* a direct call of classify
    r_image, r_out               \* a direct call of random_crop_image

dsVars == <<phase, cfg, listing, pos, x, y, geo, n_images, flip, flip_prob,
            error, lastGet, lastLen>>
clVars == <<c_label, c_classes, c_out>>
crVars == <<r_image, r_out>>
vars == <<phase, cfg, listing, pos, x, y, geo, n_images, flip, flip_prob,
          error, lastGet, lastLen, c_label, c_classes, c_out, r_image, r_out>>

----------------------------------------------------------------------------
(* Bounds of the model *)

MaxFiles == 2        \* label files listed in the labels directory
MaxRegions == 2      \* rows (sub-regions) of one label file
MaxSmallCount == 12  \* population counts 0..MaxSmallCount are all tried
Margin == 3          \* image sizes within Margin of the crop size are tried
MaxChannels == 2     \* channels of the images given to random_crop_image
Resolution == 2      \* torch.rand(1) is one of 0/Resolution..(Resolution-1)/Resolution

----------------------------------------------------------------------------
(* Generic helpers *)

Min(a, b) == IF a < b THEN a ELSE b

Max(a, b) == IF a > b THEN a ELSE b

Last(s) == s[Len(s)]

RECURSIVE Pow2(_)
Pow2(n) == IF n = 0 THEN 1 ELSE 2 * Pow2(n - 1)

----------------------------------------------------------------------------
(* Label Classifier: classify, lines 57-81 *)

\* lines 67-73: the bounds list bound by the two `if classes == ...` tests;
\* <<>> stands for the name `bounds` left unbound.
Bounds16 == [i \in 1..15 |-> Pow2(i - 1)]

Bounds6 == <<1, 10, 100, 1000, 10000>>

BoundsOf(classes) ==
    IF classes = 6 THEN Bounds6
    ELSE IF classes = 16 THEN Bounds16
    ELSE <<>>

BoundsDefined(classes) == classes = 16 \/ classes = 6

\* `if <tensor>`: torch converts a one-element tensor to its element and
\* refuses any other size ("Boolean value of Tensor ... is ambiguous").
TensorBool(t) ==
    IF Len(t) = 1 THEN (IF t[1] THEN "true" ELSE "false") ELSE "ambiguous"

\* label[1] > bound and label[1] < bound: elementwise comparisons of row 1.
RowGreater(row, bound) == [i \in 1..Len(row) |-> row[i] > bound]

RowLess(row, bound) == [i \in 1..Len(row) |-> row[i] < bound]

\* torch.cat((label, torch.tensor([[c]])), dim=0): rows must be as wide as
\* the appended 1 x 1 tensor.
CatRow(label, c) ==
    IF \A i \in 1..Len(label) : Len(label[i]) = 1
    THEN [status |-> "ok", err |-> "", label |-> Append(label, <<c>>)]
    ELSE [status |-> "error", err |-> "RuntimeError", label |-> <<>>]

\* lines 77-80: positions (1-based) of the bounds the loop reaches whose test
\* `label[1] < bound` is true; the loop breaks at the smallest one.
LoopHits(row, bounds) ==
    {c \in 1..Len(bounds) : TensorBool(RowLess(row, bounds[c])) = "true"}

SetMin(S) == CHOOSE m \in S : \A o \in S : m <= o

\* A faulty variant of classify that looks at the first count only.
classify_firstCountOnly(label, classes) ==
    LET bounds == BoundsOf(classes)
        v == label[2][1]
        hits == {c \in 1..Len(bounds) : v < bounds[c]}
        new == IF v > Last(bounds) THEN Len(bounds)
               ELSE IF hits = {} THEN -1 ELSE SetMin(hits) - 1
    IN  IF ~BoundsDefined(classes)
        THEN [status |-> "error", err |-> "UnboundLocalError", label |-> <<>>]
        ELSE IF new = -1
        THEN [status |-> "ok", err |-> "", label |-> label]
        ELSE [status |-> "ok", err |-> "",
              label |-> <<label[1], label[2], <<new>> >>]

\* classify(label, classes): the returned label, or the exception raised.
classify(label, classes) ==
    IF ~BoundsDefined(classes)
    THEN \* line 74 reads the unbound local `bounds`
         [status |-> "error", err |-> "UnboundLocalError", label |-> <<>>]
    ELSE
    LET bounds == BoundsOf(classes)
        over == TensorBool(RowGreater(label[2], Last(bounds)))
    IN  IF over = "ambiguous"
        THEN [status |-> "error", err |-> "RuntimeError", label |-> <<>>]
        ELSE IF over = "true"
        THEN CatRow(label, Len(bounds))
        ELSE IF LoopHits(label[2], bounds) = {}
        THEN [status |-> "ok", err |-> "", label |-> label]
        ELSE CatRow(label, SetMin(LoopHits(label[2], bounds)) - 1)

\* Inputs of the direct classify calls.
Edges == {Bounds6[i] : i \in 1..Len(Bounds6)} \cup {Bounds16[i] : i \in 1..Len(Bounds16)}

CountValues ==
    (0..MaxSmallCount) \cup Edges \cup {e - 1 : e \in Edges} \cup {e + 1 : e \in Edges}

RestCounts == {0, 10000, 20000}

ClassChoices == {6, 16, 7}

SeqsOf(S, n) == UNION {[1..k -> S] : k \in 0..n}

\* A raw label: row 0 = indices, row 1 = population counts, k >= 1 columns.
IndexRow(k) == [i \in 1..k |-> i]

RawLabels ==
    {<<IndexRow(1 + Len(rest)), <<first>> \o rest>> :
        first \in CountValues, rest \in SeqsOf(RestCounts, MaxRegions - 1)}

PendingCall == [status |-> "pending", err |-> "", label |-> <<>>]

ClassifyCall ==
    /\ c_out.status = "pending"
    /\ c_out' = classify(c_label, c_classes)
    /\ UNCHANGED <<c_label, c_classes>>
    /\ UNCHANGED dsVars
    /\ UNCHANGED crVars

IdleClassify ==
    /\ c_label = <<<<1>>, <<0>>>>
    /\ c_classes = 6
    /\ c_out = [status |-> "idle", err |-> "", label |-> <<>>]

----------------------------------------------------------------------------
(* Augmentation functions: random_crop_image, horizontal_flip, vertical_flip *)

crp_h == 33

crp_w == 50

\* np.random.randint(low, high): an integer in [low, high), high excluded.
RandInt(low, high) == low..(high - 1)

\* A faulty variant of CropOffsets that draws the offset below the image size
\* instead of below the size difference.
CropOffsets_belowImageSize(img, crp) ==
    IF img - crp > 0 THEN RandInt(0, img) ELSE {0}

\* lines 26-37: the values rand_pixel_h (resp. rand_pixel_w) can take for an
\* axis of size img cropped to crp.
CropOffsets(img, crp) ==
    IF img - crp > 0 THEN RandInt(0, img - crp) ELSE {0}

\* A slice a:b (0 <= a <= b) of an axis of n elements: first element kept and
\* number of elements kept; Python clips both ends to n.
PySlice(n, a, b) ==
    [start |-> Min(a, n), len |-> Max(0, Min(b, n) - Min(a, n))]

\* lines 39-42: image[:, rand_pixel_h:crp_h + rand_pixel_h,
\*                      rand_pixel_w:crp_w + rand_pixel_w]
\* as a view on the stored image: the rows and columns kept, and whether
\* axis 1 / axis 2 have been reversed.
random_crop_image(image, rand_pixel_h, rand_pixel_w) ==
    LET hs == PySlice(image.shape[2], rand_pixel_h, crp_h + rand_pixel_h)
        ws == PySlice(image.shape[3], rand_pixel_w, crp_w + rand_pixel_w)
    IN  [src |-> image.src, channels |-> image.shape[1],
         top |-> hs.start, h |-> hs.len, left |-> ws.start, w |-> ws.len,
         rev1 |-> FALSE, rev2 |-> FALSE]

\* torch.flip(image, [1])
horizontal_flip(image) == [image EXCEPT !.rev1 = ~@]

\* torch.flip(image, [2])
vertical_flip(image) == [image EXCEPT !.rev2 = ~@]

ShapeOf(view) == <<view.channels, view.h, view.w>>

CropSizes(crp) == ((crp - Margin)..(crp + Margin)) \cup {10, 100}

CropImages ==
    {[src |-> <<"t">>, shape |-> <<c, h, w>>, norm |-> 0] :
        c \in 1..MaxChannels, h \in CropSizes(crp_h), w \in CropSizes(crp_w)}

CropCall ==
    /\ r_out.status = "pending"
    /\ \E rh \in CropOffsets(r_image.shape[2], crp_h),
          rw \in CropOffsets(r_image.shape[3], crp_w) :
          r_out' = [status |-> "done", rh |-> rh, rw |-> rw,
                    im |-> random_crop_image(r_image, rh, rw)]
    /\ UNCHANGED r_image
    /\ UNCHANGED dsVars
    /\ UNCHANGED clVars

NoView ==
    [src |-> <<>>, channels |-> 0, top |-> 0, h |-> 0, left |-> 0, w |-> 0,
     rev1 |-> FALSE, rev2 |-> FALSE]

IdleCrop ==
    /\ r_image = [src |-> <<"t">>, shape |-> <<1, 1, 1>>, norm |-> 0]
    /\ r_out = [status |-> "idle", rh |-> 0, rw |-> 0, im |-> NoView]

----------------------------------------------------------------------------
(* Raster/Vector loader: load_images_and_labels, lines 84-151 *)

\* str.lstrip(chars) / str.rstrip(chars): drop leading / trailing characters
\* that belong to the SET of characters of the argument.
RECURSIVE lstrip(_, _)
lstrip(str, chars) ==
    IF str # <<>> /\ Head(str) \in chars THEN lstrip(Tail(str), chars) ELSE str

RECURSIVE rstrip(_, _)
rstrip(str, chars) ==
    IF str # <<>> /\ Last(str) \in chars
    THEN rstrip(SubSeq(str, 1, Len(str) - 1), chars)
    ELSE str

CharsOf(str) == {str[i] : i \in 1..Len(str)}

label_prefix == <<"I", "n", "d", "e", "x", "_">>

label_type == <<".", "g", "p", "k", "g">>

image_type == <<".", "t", "i", "f">>

\* lines 103, 112
image_prefix(test) ==
    IF test
    THEN <<"T", "e", "s", "t", " ", "S", "e", "t", " ", "c", "l", "i", "p",
           "p", "e", "d", "_", "I", "n", "d", "e", "x", "_">>
    ELSE <<"T", "r", "a", "i", "n", " ", "S", "e", "t", " ", "c", "l", "i",
           "p", "p", "e", "d", "_", "I", "n", "d", "e", "x", "_">>

\* line 128: i = sf.lstrip('Index_').rstrip('.gpkg')
IndexOf(sf) == rstrip(lstrip(sf, CharsOf(label_prefix)), CharsOf(label_type))

\* lines 131-132 and 139-140: the file names opened for index i
ImageName(test, i) == image_prefix(test) \o i \o image_type

LabelName(i) == label_prefix \o i \o label_type

(* The files on disk.  The train split holds an image for every index, the *)
(* test split lacks two; the labels directory holds the files of `listing`.*)
(* Index 1 is a large single-region sample, index 2 a small one whose      *)
(* count sits on a bin edge, index 12 a sample of two regions.             *)
Idx1 == <<"1">>

Idx2 == <<"2">>

Idx12 == <<"1", "2">>

ImageIndices(test) == IF test THEN {Idx1} ELSE {Idx1, Idx2, Idx12}

ImagesFolder(test) == {ImageName(test, i) : i \in ImageIndices(test)}

\* gdal ReadAsArray: the shape <<channels, height, width>> of the raster of index i
RasterShape(i) ==
    CASE i = Idx1 -> <<3, 35, 50>>
      [] i = Idx2 -> <<3, 10, 51>>
      [] OTHER -> <<3, 40, 40>>

\* gpd.read_file: the columns of the label file of index i
VectorRecords(i) ==
    CASE i = Idx1 -> [Index |-> <<1>>, Population |-> <<5>>]
      [] i = Idx2 -> [Index |-> <<2>>, Population |-> <<10000>>]
      [] OTHER -> [Index |-> <<12, 12>>, Population |-> <<3, 20000>>]

LabelFileNames ==
    {LabelName(Idx1), LabelName(Idx2), LabelName(Idx12),
     <<"x", "1">> \o label_type}

Range(seq) == {seq[i] : i \in 1..Len(seq)}

\* os.listdir: the names of a directory, each once, in any order
Listings ==
    {l \in SeqsOf(LabelFileNames, MaxFiles) :
        \A i, j \in 1..Len(l) : i # j => l[i] # l[j]}

NoSample ==
    [image |-> [src |-> <<>>, shape |-> <<0, 0, 0>>, norm |-> 0],
     label |-> [src |-> <<>>, rows |-> <<>>],
     geometry |-> [src |-> <<>>, index |-> <<>>]]

\* lines 127-149: one iteration of the loading loop for the listed file sf
LoadOne(sf, test, classes, labelsDir) ==
    LET i == IndexOf(sf)
        rec == VectorRecords(i)
        cl == classify(<<rec.Index, rec.Population>>, classes)
    IN  IF ImageName(test, i) \notin ImagesFolder(test)
        THEN [status |-> "error", err |-> "ImageOpenError", sample |-> NoSample]
        ELSE IF LabelName(i) \notin labelsDir
        THEN [status |-> "error", err |-> "LabelReadError", sample |-> NoSample]
        ELSE IF cl.status = "error"
        THEN [status |-> "error", err |-> cl.err, sample |-> NoSample]
        ELSE [status |-> "ok", err |-> "",
              sample |-> [image |-> [src |-> i, shape |-> RasterShape(i), norm |-> 0],
                          label |-> [src |-> i, rows |-> cl.label],
                          geometry |-> [src |-> i, index |-> rec.Index]]]

\* A faulty variant of AppendSample that rebinds geo_list instead of appending.
AppendSample_rebindGeo(lists, sample) ==
    [x |-> Append(lists.x, sample.image),
     y |-> Append(lists.y, sample.label),
     geo |-> <<sample.geometry>>]

\* lines 135, 147, 148: the three appends of one iteration
AppendSample(lists, sample) ==
    [x |-> Append(lists.x, sample.image),
     y |-> Append(lists.y, sample.label),
     geo |-> Append(lists.geo, sample.geometry)]

\* normalize_fn, lines 154-166: every channel of every image rewritten in
\* place; mean[0] / std[0] fail on None as soon as one channel is visited.
normalize_fn(xs, stats) ==
    IF stats = "none" /\ \E i \in 1..Len(xs) : xs[i].shape[1] > 0
    THEN [status |-> "error", err |-> "TypeError", x |-> xs]
    ELSE [status |-> "ok", err |-> "",
          x |-> [i \in 1..Len(xs) |-> [xs[i] EXCEPT !.norm = @ + 1]]]

----------------------------------------------------------------------------
(* SatImageDataset, lines 169-214 *)

Draws == 0..(Resolution - 1)

FlipProbs == {0, 1, Resolution}

\* The constructor arguments tried: mean/std matter only with normalize,
\* flip_prob only with flip (0 stands for the unused argument).
Configs ==
    {c \in [test : BOOLEAN, normalize : BOOLEAN, stats : {"none", "given"},
            flip : BOOLEAN, flip_prob : FlipProbs, classes : ClassChoices] :
        /\ (~c.normalize => c.stats = "none")
        /\ (~c.flip => c.flip_prob = 0)}

NoGet ==
    [status |-> "none", index |-> 0, im |-> NoView,
     label |-> [src |-> <<>>, rows |-> <<>>], draws |-> <<>>]

\* One iteration of the loop of load_images_and_labels that succeeds.
LoadIter ==
    /\ phase = "constructing"
    /\ pos < Len(listing)
    /\ LET r == LoadOne(listing[pos + 1], cfg.test, cfg.classes, Range(listing))
           l == AppendSample([x |-> x, y |-> y, geo |-> geo], r.sample)
       IN  /\ r.status = "ok"
           /\ x' = l.x
           /\ y' = l.y
           /\ geo' = l.geo
    /\ pos' = pos + 1
    /\ UNCHANGED <<phase, cfg, listing, n_images, flip, flip_prob, error,
                   lastGet, lastLen>>
    /\ UNCHANGED clVars
    /\ UNCHANGED crVars

\* One iteration that raises: the exception leaves __init__, no dataset exists.
LoadIterFail ==
    /\ phase = "constructing"
    /\ pos < Len(listing)
    /\ LET r == LoadOne(listing[pos + 1], cfg.test, cfg.classes, Range(listing))
       IN  /\ r.status = "error"
           /\ error' = r.err
    /\ phase' = "failed"
    /\ x' = <<>>
    /\ y' = <<>>
    /\ geo' = <<>>
    /\ UNCHANGED <<cfg, listing, pos, n_images, flip, flip_prob, lastGet, lastLen>>
    /\ UNCHANGED clVars
    /\ UNCHANGED crVars

\* line 196: len(self.x)
CountImages(xs) == Len(xs)

\* lines 151 and 191-198: the loop is over; optional normalization, then the
\* remaining fields are set and the constructor returns.
InitFinish ==
    /\ phase = "constructing"
    /\ pos = Len(listing)
    /\ LET n == IF cfg.normalize THEN normalize_fn(x, cfg.stats)
                ELSE [status |-> "ok", err |-> "", x |-> x]
       IN  IF n.status = "ok"
           THEN /\ phase' = "ready"
                /\ x' = n.x
                /\ n_images' = CountImages(n.x)
                /\ flip' = cfg.flip
                /\ flip_prob' = cfg.flip_prob
                /\ UNCHANGED <<y, geo, error>>
           ELSE /\ phase' = "failed"
                /\ error' = n.err
                /\ x' = <<>>
                /\ y' = <<>>
                /\ geo' = <<>>
                /\ UNCHANGED <<n_images, flip, flip_prob>>
    /\ UNCHANGED <<cfg, listing, pos, lastGet, lastLen>>
    /\ UNCHANGED clVars
    /\ UNCHANGED crVars

\* A faulty variant of PyIndexOk that refuses negative indices.
PyIndexOk_nonNegative(seq, index) == 0 <= index /\ index < Len(seq)

\* list.__getitem__(index): the indices a Python list accepts
PyIndexOk(seq, index) == -Len(seq) <= index /\ index < Len(seq)

\* ... and the element it returns: negative indices count from the end
PyIndex(seq, index) ==
    IF index >= 0 THEN seq[index + 1] ELSE seq[Len(seq) + index + 1]

\* A faulty variant of FlipStage with two independent `if`s.
FlipStage_independentIfs(im, fl, prob, d1, d2) ==
    IF ~fl THEN [im |-> im, draws |-> <<>>]
    ELSE LET first == IF d1 < prob THEN horizontal_flip(im) ELSE im
         IN  IF d2 < prob
             THEN [im |-> vertical_flip(first), draws |-> <<d1, d2>>]
             ELSE [im |-> first, draws |-> <<d1, d2>>]

\* lines 205-209: d1, d2 are the values the next two torch.rand(1) calls
\* would return; draws lists the calls actually made.
FlipStage(im, fl, prob, d1, d2) ==
    IF ~fl THEN [im |-> im, draws |-> <<>>]
    ELSE IF d1 < prob THEN [im |-> horizontal_flip(im), draws |-> <<d1>>]
    ELSE IF d2 < prob THEN [im |-> vertical_flip(im), draws |-> <<d1, d2>>]
    ELSE [im |-> im, draws |-> <<d1, d2>>]

Reverse(seq) == [i \in 1..Len(seq) |-> seq[Len(seq) + 1 - i]]

\* A faulty variant of ReturnedLabel that flips the label along with the image.
ReturnedLabel_flippedWithImage(ys, index, im) ==
    IF im.rev1 \/ im.rev2
    THEN [PyIndex(ys, index) EXCEPT !.rows = Reverse(@)]
    ELSE PyIndex(ys, index)

\* line 211: self.y[index]
ReturnedLabel(ys, index, im) == PyIndex(ys, index)

GetIndices == (-(MaxFiles + 1))..(MaxFiles + 1)

\* __getitem__, lines 200-211
Get ==
    /\ phase = "ready"
    /\ \E index \in GetIndices :
          IF ~PyIndexOk(x, index)
          THEN lastGet' = [NoGet EXCEPT !.status = "IndexError", !.index = index]
          ELSE LET image == PyIndex(x, index)
               IN  \E rh \in CropOffsets(image.shape[2], crp_h),
                      rw \in CropOffsets(image.shape[3], crp_w),
                      d1 \in Draws, d2 \in Draws :
                      LET f == FlipStage(random_crop_image(image, rh, rw),
                                         flip, flip_prob, d1, d2)
                      IN  lastGet' = [status |-> "ok", index |-> index,
                                      im |-> f.im,
                                      label |-> ReturnedLabel(y, index, f.im),
                                      draws |-> f.draws]
    /\ UNCHANGED <<phase, cfg, listing, pos, x, y, geo, n_images, flip,
                   flip_prob, error, lastLen>>
    /\ UNCHANGED clVars
    /\ UNCHANGED crVars

\* __len__, lines 213-214
GetLen ==
    /\ phase = "ready"
    /\ lastLen' = n_images
    /\ UNCHANGED <<phase, cfg, listing, pos, x, y, geo, n_images, flip,
                   flip_prob, error, lastGet>>
    /\ UNCHANGED clVars
    /\ UNCHANGED crVars

IdleDataset ==
    /\ phase = "idle"
    /\ cfg = [test |-> FALSE, normalize |-> FALSE, stats |-> "none",
              flip |-> FALSE, flip_prob |-> 0, classes |-> 16]
    /\ listing = <<>>
    /\ pos = 0
    /\ x = <<>>
    /\ y = <<>>
    /\ geo = <<>>
    /\ n_images = 0
    /\ flip = FALSE
    /\ flip_prob = 0
    /\ error = ""
    /\ lastGet = NoGet
    /\ lastLen = -1

----------------------------------------------------------------------------
(* Specifications *)

\* The dataset: construction over any listing and configuration, then reads.
Init ==
    /\ phase = "constructing"
    /\ cfg \in Configs
    /\ listing \in Listings
    /\ pos = 0
    /\ x = <<>>
    /\ y = <<>>
    /\ geo = <<>>
    /\ n_images = 0
    /\ flip = FALSE
    /\ flip_prob = 0
    /\ error = ""
    /\ lastGet = NoGet
    /\ lastLen = -1
    /\ IdleClassify
    /\ IdleCrop

Next == LoadIter \/ LoadIterFail \/ InitFinish \/ Get \/ GetLen

Spec == Init /\ [][Next]_vars

\* Direct calls of classify on every raw label and classes value.
InitClassify ==
    /\ IdleDataset
    /\ IdleCrop
    /\ c_label \in RawLabels
    /\ c_classes \in ClassChoices
    /\ c_out = PendingCall

NextClassify == ClassifyCall

SpecClassify == InitClassify /\ [][NextClassify]_vars

\* Direct calls of random_crop_image on every image shape.
InitCrop ==
    /\ IdleDataset
    /\ IdleClassify
    /\ r_image \in CropImages
    /\ r_out = [status |-> "pending", rh |-> 0, rw |-> 0, im |-> NoView]

NextCrop == CropCall

SpecCrop == InitCrop /\ [][NextCrop]_vars

----------------------------------------------------------------------------
(* Properties *)

ClassifyCalled == c_out.status \in {"ok", "error"}

ValidClasses == c_classes \in {6, 16}

\* The bin the rule of the specification assigns to count n: the index of the
\* first edge strictly greater than n, the number of edges when there is none.
RuleBin(n, classes) ==
    LET b == BoundsOf(classes)
        greater == {i \in 1..Len(b) : b[i] > n}
    IN  IF greater = {} THEN Len(b) ELSE SetMin(greater) - 1

\* C1: for classes in {6, 16} and a single-region label with count n >= 0,
\* classify appends the index of the first edge strictly greater than n, or
\* the number of edges (overflow bin) when no edge is greater.
C1_FirstGreaterEdge ==
    (ClassifyCalled /\ ValidClasses /\ Len(c_label[2]) = 1 /\ c_label[2][1] >= 0)
        => /\ c_out.status = "ok"
           /\ Len(c_out.label) = 3
           /\ c_out.label[3] = <<RuleBin(c_label[2][1], c_classes)>>

\* C2: the label classify returns has exactly one more row than its input,
\* whatever the count, and its first two rows are the input rows.
C2_OneMoreRow ==
    (ClassifyCalled /\ ValidClasses /\ c_out.status = "ok")
        => /\ Len(c_out.label) = Len(c_label) + 1
           /\ c_out.label[1] = c_label[1]
           /\ c_out.label[2] = c_label[2]

GetCalled == phase = "ready" /\ lastGet.status \in {"ok", "IndexError"}

\* C3 (as stated): get(index) fails with an out-of-range error for every
\* index outside [0, L) and returns a sample only for 0 <= index < L.
C3_OutOfRangeFails ==
    GetCalled =>
        (lastGet.status = "IndexError"
            <=> ~(0 <= lastGet.index /\ lastGet.index < n_images))

\* C3 (amended): get(index) fails with an out-of-range error exactly for
\* the indices outside [-L, L); for -L <= index < 0 it returns the sample at
\* position L + index, for 0 <= index < L the sample at position index.
C3_PythonIndexRange ==
    GetCalled =>
        LET L == n_images
            i == lastGet.index
            at == IF i >= 0 THEN i + 1 ELSE L + i + 1
        IN  /\ lastGet.status = "IndexError" <=> ~(-L <= i /\ i < L)
            /\ lastGet.status = "ok" =>
                   /\ lastGet.im.src = x[at].src
                   /\ lastGet.label = y[at]

C3_Witness ==
    /\ GetCalled
    /\ n_images = 2
    /\ lastGet.index = -1
    /\ lastGet.status = "ok"
    /\ lastGet.label = y[2]

\* C4: random_crop_image with target (33, 50) returns an image of shape
\* (C, min(h, 33), min(w, 50)) for every image shape and choice of offsets.
C4_CropShape ==
    r_out.status = "done" =>
        ShapeOf(r_out.im) = <<r_image.shape[1],
                              Min(r_image.shape[2], crp_h),
                              Min(r_image.shape[3], crp_w)>>

C4_Witness ==
    /\ r_out.status = "done"
    /\ r_image.shape[2] = 100
    /\ r_image.shape[3] = 10
    /\ r_out.rh > 0
    /\ ShapeOf(r_out.im) = <<r_image.shape[1], crp_h, 10>>

\* The offsets for which a crop of size t fits in an axis of size s.
FittingOffsets(s, t) == IF s > t THEN 0..(s - t) ELSE {0}

\* C9: along each axis the offsets random_crop_image can choose are exactly
\* the fitting ones, {0..s-t} when s > t and {0} otherwise.
C9_AllFittingOffsets ==
    r_out.status = "done" =>
        /\ CropOffsets(r_image.shape[2], crp_h) = FittingOffsets(r_image.shape[2], crp_h)
        /\ CropOffsets(r_image.shape[3], crp_w) = FittingOffsets(r_image.shape[3], crp_w)

\* C5: once constructed, the length equals the number of listed label files,
\* the three sequences have that length, and position i of each of them was
\* loaded for the index of the i-th listed file.
C5_ParallelSequences ==
    phase = "ready" =>
        /\ n_images = Len(listing)
        /\ lastLen # -1 => lastLen = Len(listing)
        /\ Len(x) = Len(listing)
        /\ Len(y) = Len(listing)
        /\ Len(geo) = Len(listing)
        /\ \A i \in 1..Len(listing) :
              /\ x[i].src = IndexOf(listing[i])
              /\ y[i].src = IndexOf(listing[i])
              /\ geo[i].src = IndexOf(listing[i])

C5_Witness ==
    /\ phase = "ready"
    /\ Len(listing) = 2
    /\ lastLen = 2
    /\ x[1].src # x[2].src
    /\ geo[2].src = IndexOf(listing[2])

\* C6: with flip enabled the horizontal flip is applied iff the first draw
\* is below flip_prob, the vertical flip iff the first draw is not below and
\* a second draw, made only then, is below; never both.  With flip disabled
\* there is no draw and no flip.
C6_AtMostOneFlip ==
    (phase = "ready" /\ lastGet.status = "ok") =>
        LET d == lastGet.draws
            im == lastGet.im
        IN  IF flip
            THEN /\ Len(d) \in {1, 2}
                 /\ im.rev1 <=> d[1] < flip_prob
                 /\ Len(d) = 2 <=> ~(d[1] < flip_prob)
                 /\ im.rev2 <=> (Len(d) = 2 /\ d[2] < flip_prob)
                 /\ ~(im.rev1 /\ im.rev2)
            ELSE d = <<>> /\ ~im.rev1 /\ ~im.rev2

C6_Witness ==
    /\ phase = "ready"
    /\ flip
    /\ lastGet.status = "ok"
    /\ Len(lastGet.draws) = 2
    /\ lastGet.im.rev2
    /\ ~lastGet.im.rev1

\* C7: once ready, get and length calls leave the images, labels, geometries
\* and length unchanged, the dataset stays ready, and the label a get returns
\* is the stored label at that position.
C7_ReadsLeaveDatasetUnchanged ==
    [][phase = "ready" =>
          /\ phase' = "ready"
          /\ x' = x
          /\ y' = y
          /\ geo' = geo
          /\ n_images' = n_images
          /\ lastLen' # -1 => lastLen' = n_images
          /\ lastGet'.status = "ok" =>
                 lastGet'.label = PyIndex(y, lastGet'.index)]_vars

C7_Witness ==
    /\ phase = "ready"
    /\ cfg.normalize
    /\ Len(x) = 2
    /\ x[1].norm = 1
    /\ lastLen = 2
    /\ lastGet.status = "ok"
    /\ lastGet.im.rev1
    /\ lastGet.index = 1
    /\ lastGet.label = y[2]

\* C8: a classes value other than 6 or 16 never yields a ready dataset,
\* whatever the labels directory lists.
C8_InvalidClassesRejected ==
    ~BoundsDefined(cfg.classes) => phase # "ready"

====
